---- MODULE Spec2Model ----
(***************************************************************************)
(* ToolVerse analytics services.                                           *)
(*                                                                         *)
(* The repository holds two independent services:                          *)
(*   analytics-service/main.py : AnalyticsProcessor (event buffer,         *)
(*       in-process counters, insights, anomaly detection), the background *)
(*       trimming loop and the organization-scoped WebSocket hub;          *)
(*   analytics-service/app.py  : AnalyticsManager (metrics scheduler,      *)
(*       queue drainer, unscoped broadcast) and its WebSocket endpoint.    *)
(* Names of main.py are used as they are; names of app.py that clash with  *)
(* main.py carry the prefix app_.                                          *)
(***************************************************************************)
EXTENDS Integers, Sequences, FiniteSets, Bags, TLC

(***************************************************************************)
(* Program constants (values as in the source).                            *)
(***************************************************************************)
BUFFER_KEEP == 1000
API_WINDOW == 50
API_THRESHOLD == 20
ERROR_WINDOW == 20
ERROR_THRESHOLD == 5
INSIGHT_MIN == 10
INSIGHT_WINDOW == 100
REDIS_TTL == 86400
METRICS_INTERVAL == 30
METRICS_TTL == 60
COUNTER_TTL == 86400
HOUR == 3600
DAY == 86400
MINUTES_PER_HOUR == 60
HEALTHY_ERROR_RATE == 5
HEALTHY_CPU == 80

(***************************************************************************)
(* Bounds of the exploration.                                              *)
(***************************************************************************)
\* events ingested in the buffer-cap exploration (SpecBuffer)
MaxBufferEvents == 1002
\* events ingested in the anomaly exploration (SpecAnomaly)
MaxAnomalyEvents == 51
\* changes of event class along one ingested sequence (SpecAnomaly)
MaxSwitches == 1
\* events ingested in the fail-soft exploration (SpecIngest)
MaxIngestEvents == 3
\* changes of the cache's reachability after startup
MaxToggles == 1
\* events ingested in the subscriber exploration (SpecOrg)
MaxOrgEvents == 2
\* the clock of app.py runs from 0 to MaxTime seconds, ClockStep at a time
MaxTime == 120
ClockStep == 20
\* broadcasts started by the HTTP endpoints of app.py
MaxHttpCalls == 2
\* events posted to /api/events of app.py
MaxTracked == 3

VARIABLES
    \* ---- main.py ----
    started,            \* startup_event has run
    redis_client,       \* main.py global redis_client: "None" or "client"
    redis_up,           \* environment: the cache answers
    toggles,            \* environment: reachability changes so far
    bg_started,         \* background_analytics_processing was created
    data_buffer,        \* AnalyticsProcessor.data_buffer
    real_time_metrics,  \* AnalyticsProcessor.real_time_metrics
    redis_store,        \* the cache's content written by _store_in_redis
    in_flight,          \* process_event calls suspended on the cache, per caller
    next_seq,           \* ingestion order of the next event (history)
    switches,           \* changes of event class so far (environment bound)
    last,               \* the step just taken and what it returned (history)
    \* ---- main.py, websocket_endpoint ----
    active_connections, \* main.py global dict, as its entry table
    user_sessions,      \* main.py global dict: connection -> organization
    ws_pc,              \* where each connection's handler stands
    peer_ok,            \* environment: the client end still takes messages
    ws_iter,            \* the handler's iterator inside broadcast_to_organization
    ws_result,          \* the handler's local result of process_event
    probe_failures,     \* pings in a row that could not be sent (history)
    \* ---- app.py ----
    app_redis_client,   \* app.py global redis_client is not None
    now,                \* the clock, in seconds
    cache_metrics,      \* the cache's key real_time_metrics
    written,            \* the latest setex of real_time_metrics (history)
    sched_pc,           \* where update_real_time_metrics stands
    sched_wake,         \* when its sleep ends
    sched_metrics,      \* its local metrics
    tick,               \* what the current cycle has done (history)
    app_active_connections, \* app.py global list active_connections
    app_ws_pc,          \* where each app.py connection's handler stands
    app_peer_ok,        \* environment: the client end still takes messages
    pass,               \* the running calls of broadcast_to_clients
    http_calls,         \* broadcasts started by HTTP endpoints so far
    system_metrics,     \* the rows of table system_metrics
    \* ---- app.py, the tables and the cache's queue and counters ----
    db_events,          \* table events, a bag of rows
    db_tool_usage,      \* table tool_usage, a bag of rows
    db_payments,        \* table payments, a bag of rows
    db_subscriptions,   \* table subscriptions, a bag of rows
    analytics_queue,    \* the cache's list analytics_queue
    counters,           \* the cache's keys counter:event:* and counter:user:*
    tracked             \* events posted to /api/events so far (history)

main_vars == <<started, redis_client, redis_up, toggles, bg_started, data_buffer,
               real_time_metrics, redis_store, in_flight, next_seq, switches>>
hub_vars == <<active_connections, user_sessions, ws_pc, peer_ok, ws_iter, ws_result,
              probe_failures>>
app_vars == <<app_redis_client, now, cache_metrics, written, sched_pc, sched_wake,
              sched_metrics, tick, app_active_connections, app_ws_pc, app_peer_ok,
              pass, http_calls, system_metrics>>
store_vars == <<db_events, db_tool_usage, db_payments, db_subscriptions,
                analytics_queue, counters, tracked>>
vars == <<main_vars, last, hub_vars, app_vars, store_vars>>

(***************************************************************************)
(* Values.                                                                 *)
(***************************************************************************)
Users == {"A", "B"}
Orgs == {"org1", "org2"}
Tools == {"unknown", "t1"}
EventTypes == {"user_login", "tool_usage", "api_call", "error", "payment", "page_view"}
Conns == {"c1", "c2", "c3", "c4"}
RestCalls == {"rest", "rest2"}
Callers == RestCalls \cup Conns
\* the organization each connection names in its path /ws/{organization_id}
OrgOf(c) == IF c = "c3" THEN "org2" ELSE "org1"
NoIter == [active |-> FALSE]
NoResult == [processed |-> FALSE, error |-> "none"]
NoCall == [busy |-> FALSE]

\* AnalyticsEvent(event_type, user_id, organization_id, tool_id, data); the
\* data mapping is kept as its 'amount' entry: amount_ok says whether float()
\* accepts it. seq is the ingestion order, kept for the history only.
Event(t, u, o, tool, ok, amt) ==
    [event_type |-> t, user_id |-> u, organization_id |-> o, tool_id |-> tool,
     amount_ok |-> ok, amount |-> amt, seq |-> 0]

\* Python's s[-n:]
LastN(s, n) ==
    LET start == IF Len(s) - n > 0 THEN Len(s) - n ELSE 0
    IN  SubSeq(s, start + 1, Len(s))

\* Python's s[:n]
FirstN(s, n) == SubSeq(s, 1, IF Len(s) < n THEN Len(s) ELSE n)

(***************************************************************************)
(* AnalyticsProcessor._update_real_time_metrics                            *)
(***************************************************************************)
\* float(amount) raises on a value that is no number
MetricsRaises(ev) == ev.event_type = "payment" /\ ~ev.amount_ok

UpdateRealTimeMetrics(m, ev) ==
    CASE ev.event_type = "user_login" -> [m EXCEPT !.total_users = @ + 1]
      [] ev.event_type = "tool_usage" ->
            [m EXCEPT !.active_tools[ev.tool_id] = @ + 1]
      [] ev.event_type = "api_call"   -> [m EXCEPT !.api_calls = @ + 1]
      [] ev.event_type = "error"      -> [m EXCEPT !.errors = @ + 1]
      [] ev.event_type = "payment"    -> [m EXCEPT !.revenue = @ + ev.amount]
      [] OTHER -> m

(***************************************************************************)
(* AnalyticsProcessor._store_in_redis: setex of the event key, hincrby of  *)
(* the organization's hash field, expire of the hash.                      *)
(***************************************************************************)
StoreInRedis(store, ev) ==
    [store EXCEPT !.events = @ + 1,
                  !.metrics[ev.organization_id][ev.event_type] = @ + 1,
                  !.ttl[ev.organization_id] = REDIS_TTL]

(***************************************************************************)
(* AnalyticsProcessor._generate_insights: the frame is the last 100        *)
(* buffered events once more than 10 are buffered; the insight is kept as  *)
(* the per-type counts of the frame (usage) and its size.                  *)
(***************************************************************************)
GenerateInsights(buf) ==
    IF Len(buf) > INSIGHT_MIN
    THEN LET frame == LastN(buf, INSIGHT_WINDOW)
         IN  [status |-> "computed", analysed |-> Len(frame)]
    ELSE [status |-> "insufficient", analysed |-> 0]

(***************************************************************************)
(* AnalyticsProcessor._detect_anomalies                                    *)
(***************************************************************************)
RecentCalls(buf, ev) ==
    LET Mine(e) == e.event_type = "api_call" /\ e.user_id = ev.user_id
    IN  Len(SelectSeq(LastN(buf, API_WINDOW), Mine))

ApiAnomaly_AtThreshold(buf, ev) ==
    IF ev.event_type = "api_call" /\ RecentCalls(buf, ev) >= API_THRESHOLD
    THEN << [type |-> "high_api_usage", user_id |-> ev.user_id,
             count |-> RecentCalls(buf, ev), severity |-> "high"] >>
    ELSE << >>

ApiAnomaly(buf, ev) ==
    IF ev.event_type = "api_call" /\ RecentCalls(buf, ev) > API_THRESHOLD
    THEN << [type |-> "high_api_usage", user_id |-> ev.user_id,
             count |-> RecentCalls(buf, ev), severity |-> "high"] >>
    ELSE << >>

RecentErrors(buf) ==
    LET IsError(e) == e.event_type = "error"
    IN  Len(SelectSeq(LastN(buf, ERROR_WINDOW), IsError))

ErrorAnomaly_AtThreshold(buf, ev) ==
    IF ev.event_type = "error" /\ RecentErrors(buf) >= ERROR_THRESHOLD
    THEN << [type |-> "error_spike", count |-> RecentErrors(buf),
             severity |-> "medium"] >>
    ELSE << >>

ErrorAnomaly(buf, ev) ==
    IF ev.event_type = "error" /\ RecentErrors(buf) > ERROR_THRESHOLD
    THEN << [type |-> "error_spike", count |-> RecentErrors(buf),
             severity |-> "medium"] >>
    ELSE << >>

DetectAnomalies(buf, ev) == ApiAnomaly(buf, ev) \o ErrorAnomaly(buf, ev)

(***************************************************************************)
(* Construction: module globals and AnalyticsProcessor.__init__            *)
(***************************************************************************)
InitMain ==
    /\ started = FALSE
    /\ redis_client = "None"
    /\ redis_up \in BOOLEAN
    /\ toggles = 0
    /\ bg_started = FALSE
    /\ data_buffer = << >>
    /\ real_time_metrics =
          [total_users |-> 0, active_tools |-> [t \in Tools |-> 0],
           api_calls |-> 0, errors |-> 0, revenue |-> 0, system_load |-> 0]
    /\ redis_store =
          [events |-> 0,
           metrics |-> [o \in Orgs |-> [t \in EventTypes |-> 0]],
           ttl |-> [o \in Orgs |-> 0]]
    /\ in_flight = [c \in Callers |-> NoCall]
    /\ next_seq = 1
    /\ switches = 0
    /\ last = [op |-> "init"]
    /\ active_connections = << >>
    /\ user_sessions = [c \in Conns |-> "absent"]
    /\ ws_pc = [c \in Conns |-> "new"]
    /\ peer_ok = [c \in Conns |-> TRUE]
    /\ ws_iter = [c \in Conns |-> NoIter]
    /\ ws_result = [c \in Conns |-> NoResult]
    /\ probe_failures = [c \in Conns |-> 0]

(***************************************************************************)
(* startup_event: from_url sets the global before the ping; a failed ping  *)
(* leaves the client set and skips create_task; a REDIS_URL that from_url  *)
(* rejects leaves the global None.                                         *)
(***************************************************************************)
StartupEvent(url_ok) ==
    /\ ~started
    /\ started' = TRUE
    /\ redis_client' = IF url_ok THEN "client" ELSE "None"
    /\ bg_started' = (url_ok /\ redis_up)
    /\ last' = [op |-> "startup"]
    /\ UNCHANGED <<redis_up, toggles, data_buffer, real_time_metrics,
                   redis_store, in_flight, next_seq, switches, hub_vars, app_vars, store_vars>>

\* environment: the cache becomes unreachable, or reachable again
RedisToggle ==
    /\ started
    /\ toggles < MaxToggles
    /\ toggles' = toggles + 1
    /\ redis_up' = ~redis_up
    /\ last' = [op |-> "redis_toggle"]
    /\ UNCHANGED <<started, redis_client, bg_started, data_buffer,
                   real_time_metrics, redis_store, in_flight, next_seq, switches,
                   hub_vars, app_vars, store_vars>>

(***************************************************************************)
(* background_analytics_processing: one pass of the loop body              *)
(***************************************************************************)
TrimBuffer_KeepOldest(buf) ==
    IF Len(buf) > BUFFER_KEEP THEN FirstN(buf, BUFFER_KEEP) ELSE buf

TrimBuffer(buf) ==
    IF Len(buf) > BUFFER_KEEP THEN LastN(buf, BUFFER_KEEP) ELSE buf

BackgroundAnalyticsProcessing ==
    /\ bg_started
    /\ data_buffer' = TrimBuffer(data_buffer)
    /\ last' = IF Len(data_buffer) > BUFFER_KEEP
               THEN [op |-> "trim", before |-> data_buffer]
               ELSE [op |-> "background"]
    /\ UNCHANGED <<started, redis_client, redis_up, toggles, bg_started,
                   real_time_metrics, redis_store, in_flight, next_seq, switches,
                   hub_vars, app_vars, store_vars>>

(***************************************************************************)
(* AnalyticsProcessor.process_event.  The call runs without suspension up  *)
(* to the first await on the cache (ProcessEventBegin) and from the cache's*)
(* answer to its return (ProcessEventResume); with redis_client None it    *)
(* never suspends.  What an exception of a step returns is ProcessFailed.  *)
(***************************************************************************)
ProcessFailed(buf, ev, step) == [processed |-> FALSE, error |-> step]

ProcessDone(buf, ev) ==
    [processed |-> TRUE, insights |-> GenerateInsights(buf),
     anomalies |-> DetectAnomalies(buf, ev)]

Returned(caller, ev, raised, result) ==
    [op |-> "process_event", caller |-> caller, event |-> ev,
     raised |-> raised, result |-> result]

ProcessEventBegin(caller, event) ==
    LET ev == [event EXCEPT !.seq = next_seq]
        buf == Append(data_buffer, ev)
    IN  /\ started
        /\ ~in_flight[caller].busy
        /\ data_buffer' = buf
        /\ next_seq' = next_seq + 1
        /\ IF MetricsRaises(ev)
           THEN /\ last' = Returned(caller, ev, "metrics", ProcessFailed(buf, ev, "metrics"))
                /\ UNCHANGED <<real_time_metrics, in_flight>>
           ELSE /\ real_time_metrics' = UpdateRealTimeMetrics(real_time_metrics, ev)
                /\ IF redis_client = "None"
                   THEN /\ last' = Returned(caller, ev, "none", ProcessDone(buf, ev))
                        /\ UNCHANGED in_flight
                   ELSE /\ in_flight' = [in_flight EXCEPT ![caller] = [busy |-> TRUE, event |-> ev]]
                        /\ last' = [op |-> "process_event_await", caller |-> caller]
        /\ UNCHANGED <<started, redis_client, redis_up, toggles, bg_started, redis_store>>

ProcessEventResume(caller) ==
    LET ev == in_flight[caller].event
    IN  /\ in_flight[caller].busy
        /\ in_flight' = [in_flight EXCEPT ![caller] = NoCall]
        /\ IF redis_up
           THEN /\ redis_store' = StoreInRedis(redis_store, ev)
                /\ last' = Returned(caller, ev, "none", ProcessDone(data_buffer, ev))
           ELSE /\ last' = Returned(caller, ev, "redis", ProcessFailed(data_buffer, ev, "redis"))
                /\ UNCHANGED redis_store
        /\ UNCHANGED <<started, redis_client, redis_up, toggles, bg_started,
                       data_buffer, real_time_metrics, next_seq>>

(***************************************************************************)
(* track_event, the REST endpoint of main.py: the call of process_event    *)
(* and its return.                                                         *)
(***************************************************************************)
TrackEvent(r, event) ==
    /\ ProcessEventBegin(r, event)
    /\ UNCHANGED <<hub_vars, app_vars, store_vars>>

TrackEventReturn(r) ==
    /\ ProcessEventResume(r)
    /\ UNCHANGED <<switches, hub_vars, app_vars, store_vars>>

(***************************************************************************)
(* The dict active_connections.  CPython keeps a dict as a table of        *)
(* entries in insertion order: del leaves a dummy entry, a new key is      *)
(* appended.  (The table is rebuilt only when its free entries run out,    *)
(* which the four connections of Conns never reach.)                      *)
(***************************************************************************)
Keys(d) == { d[i] : i \in DOMAIN d } \ {"DUMMY"}
DictLen(d) == Cardinality(Keys(d))
DictSet(d, k) == IF k \in Keys(d) THEN d ELSE Append(d, k)
DictDel(d, k) == [i \in DOMAIN d |-> IF d[i] = k THEN "DUMMY" ELSE d[i]]

\* iter(d.items()): the position in the table, the size the dict had
\* (di_used) and the items left to give (len); sent, failed and members (the
\* keys at the start of the iteration) are history
NewIter(d) ==
    [active |-> TRUE, pos |-> 0, used |-> DictLen(d), remaining |-> DictLen(d),
     sent |-> {}, failed |-> {}, members |-> Keys(d)]

\* next() on the iterator: an item, the end, or RuntimeError (the dict
\* changed size, or its keys changed, during the iteration)
IterNext(d, it) ==
    LET live == { i \in DOMAIN d : i > it.pos /\ d[i] # "DUMMY" }
        i == IF live = {} THEN 0 ELSE CHOOSE x \in live : \A y \in live : x <= y
    IN  IF it.used # DictLen(d) THEN [kind |-> "error", it |-> it]
        ELSE IF i = 0 THEN [kind |-> "stop", it |-> it]
        ELSE IF it.remaining = 0 THEN [kind |-> "error", it |-> it]
        ELSE [kind |-> "item", key |-> d[i],
              it |-> [it EXCEPT !.pos = i, !.remaining = @ - 1]]

(***************************************************************************)
(* broadcast_to_organization: from one send to the next.  The loop runs    *)
(* without suspension from the return of one send_json to the start of the *)
(* next (or to its end).                                                   *)
(***************************************************************************)
InScope(sessions, conn_id, organization_id, exclude) ==
    conn_id # exclude /\ sessions[conn_id] = organization_id

RECURSIVE NextTarget(_, _, _, _, _)
NextTarget(d, sessions, it, organization_id, exclude) ==
    LET r == IterNext(d, it)
    IN  IF r.kind = "item" /\ ~InScope(sessions, r.key, organization_id, exclude)
        THEN NextTarget(d, sessions, r.it, organization_id, exclude)
        ELSE r

\* the finally block of websocket_endpoint
Cleanup(c) ==
    /\ active_connections' = DictDel(active_connections, c)
    /\ user_sessions' = [user_sessions EXCEPT ![c] = "absent"]
    /\ ws_pc' = [ws_pc EXCEPT ![c] = "done"]
    /\ ws_iter' = [ws_iter EXCEPT ![c] = NoIter]

\* what a failed send_json inside the loop does to the registry: it is
\* logged, and the registry is left as it is
OnBroadcastSendError(d, conn_id) == d

BroadcastRun(c, it) ==
    LET r == NextTarget(active_connections, user_sessions, it, OrgOf(c), c)
    IN  CASE r.kind = "item" ->
               /\ ws_pc' = [ws_pc EXCEPT ![c] = "bcast"]
               /\ ws_iter' = [ws_iter EXCEPT ![c] =
                      IF peer_ok[r.key]
                      THEN [r.it EXCEPT !.sent = @ \cup {r.key}]
                      ELSE [r.it EXCEPT !.failed = @ \cup {r.key}]]
               /\ active_connections' =
                      IF peer_ok[r.key] THEN active_connections
                      ELSE OnBroadcastSendError(active_connections, r.key)
               /\ last' = [op |-> "broadcast_send", from |-> c, to |-> r.key,
                           ok |-> peer_ok[r.key]]
               /\ UNCHANGED user_sessions
          [] r.kind = "stop" ->
               /\ ws_pc' = [ws_pc EXCEPT ![c] = "recv"]
               /\ ws_iter' = [ws_iter EXCEPT ![c] = NoIter]
               /\ last' = [op |-> "broadcast_return", from |-> c,
                           sent |-> it.sent, failed |-> it.failed,
                           members |-> it.members]
               /\ UNCHANGED <<active_connections, user_sessions>>
          [] r.kind = "error" ->
               /\ Cleanup(c)
               /\ last' = [op |-> "handler_exit", conn |-> c, cause |-> "RuntimeError",
                           from |-> c, sent |-> it.sent, failed |-> it.failed,
                           members |-> it.members]

(***************************************************************************)
(* websocket_endpoint of main.py, one action per run between suspensions.  *)
(***************************************************************************)
\* accept() and the registration that follows it
WebsocketConnect(c) ==
    /\ started
    /\ ws_pc[c] = "new"
    /\ IF peer_ok[c]
       THEN /\ active_connections' = DictSet(active_connections, c)
            /\ user_sessions' = [user_sessions EXCEPT ![c] = OrgOf(c)]
            /\ ws_pc' = [ws_pc EXCEPT ![c] = "initial"]
            /\ last' = [op |-> "connect", conn |-> c]
       ELSE /\ ws_pc' = [ws_pc EXCEPT ![c] = "done"]
            /\ last' = [op |-> "handler_exit", conn |-> c, cause |-> "accept"]
            /\ UNCHANGED <<active_connections, user_sessions>>
    /\ UNCHANGED <<main_vars, peer_ok, ws_iter, ws_result, probe_failures, app_vars, store_vars>>

\* the initial_data message
WebsocketInitial(c) ==
    /\ ws_pc[c] = "initial"
    /\ IF peer_ok[c]
       THEN /\ ws_pc' = [ws_pc EXCEPT ![c] = "recv"]
            /\ last' = [op |-> "send", to |-> c, type |-> "initial_data"]
            /\ UNCHANGED <<active_connections, user_sessions, ws_iter>>
       ELSE /\ Cleanup(c)
            /\ last' = [op |-> "handler_exit", conn |-> c, cause |-> "send"]
    /\ UNCHANGED <<main_vars, peer_ok, ws_result, probe_failures, app_vars, store_vars>>

\* a track_event message whose data validates: process_event is called
WebsocketTrackEvent(c, event) ==
    /\ ws_pc[c] = "recv"
    /\ peer_ok[c]
    /\ next_seq <= MaxOrgEvents
    /\ ProcessEventBegin(c, event)
    /\ ws_pc' = [ws_pc EXCEPT ![c] = IF in_flight'[c].busy THEN "processing" ELSE "reply"]
    /\ ws_result' = [ws_result EXCEPT ![c] =
                        IF in_flight'[c].busy THEN @ ELSE last'.result]
    /\ UNCHANGED <<switches, active_connections, user_sessions, peer_ok, ws_iter, probe_failures,
                   app_vars, store_vars>>

\* process_event returns to the handler
WebsocketProcessed(c) ==
    /\ ws_pc[c] = "processing"
    /\ ProcessEventResume(c)
    /\ ws_pc' = [ws_pc EXCEPT ![c] = "reply"]
    /\ ws_result' = [ws_result EXCEPT ![c] = last'.result]
    /\ UNCHANGED <<switches, active_connections, user_sessions, peer_ok, ws_iter, probe_failures,
                   app_vars, store_vars>>

\* the event_processed message, then the call of broadcast_to_organization
\* up to its first send
WebsocketReply(c) ==
    /\ ws_pc[c] = "reply"
    /\ IF peer_ok[c]
       THEN BroadcastRun(c, NewIter(active_connections))
       ELSE /\ Cleanup(c)
            /\ last' = [op |-> "handler_exit", conn |-> c, cause |-> "send"]
    /\ UNCHANGED <<main_vars, peer_ok, ws_result, probe_failures, app_vars, store_vars>>

\* broadcast_to_organization resumes after a send
BroadcastToOrganization(c) ==
    /\ ws_pc[c] = "bcast"
    /\ BroadcastRun(c, ws_iter[c])
    /\ UNCHANGED <<main_vars, peer_ok, ws_result, probe_failures, app_vars, store_vars>>

\* a track_event message whose data AnalyticsEvent rejects (or a message
\* that is no JSON object): the exception leaves the receive loop, nothing
\* is sent to the client
WebsocketBadMessage(c) ==
    /\ ws_pc[c] = "recv"
    /\ peer_ok[c]
    /\ Cleanup(c)
    /\ last' = [op |-> "handler_exit", conn |-> c, cause |-> "message",
                reply |-> "none",
                before |-> [data_buffer |-> data_buffer,
                            real_time_metrics |-> real_time_metrics,
                            redis_store |-> redis_store,
                            registry |-> Keys(active_connections)]]
    /\ UNCHANGED <<main_vars, peer_ok, ws_result, probe_failures, app_vars, store_vars>>

\* a get_dashboard message and its dashboard_data answer
WebsocketGetDashboard(c) ==
    /\ ws_pc[c] = "recv"
    /\ peer_ok[c]
    /\ last' = [op |-> "send", to |-> c, type |-> "dashboard_data"]
    /\ UNCHANGED <<main_vars, hub_vars, app_vars, store_vars>>

\* 30 s without a message: a ping is sent; a ping that cannot be sent
\* raises inside the except clause and leaves the receive loop
WebsocketTimeout(c) ==
    /\ ws_pc[c] = "recv"
    /\ IF peer_ok[c]
       THEN /\ last' = [op |-> "send", to |-> c, type |-> "ping"]
            /\ probe_failures' = [probe_failures EXCEPT ![c] = 0]
            /\ UNCHANGED <<active_connections, user_sessions, ws_pc, ws_iter>>
       ELSE /\ Cleanup(c)
            /\ probe_failures' = [probe_failures EXCEPT ![c] = @ + 1]
            /\ last' = [op |-> "handler_exit", conn |-> c, cause |-> "ping"]
    /\ UNCHANGED <<main_vars, peer_ok, ws_result, app_vars, store_vars>>

\* receive_json raises WebSocketDisconnect
WebsocketDisconnected(c) ==
    /\ ws_pc[c] = "recv"
    /\ ~peer_ok[c]
    /\ Cleanup(c)
    /\ last' = [op |-> "handler_exit", conn |-> c, cause |-> "disconnect"]
    /\ UNCHANGED <<main_vars, peer_ok, ws_result, probe_failures, app_vars, store_vars>>

\* environment: the client end goes away; from now on sends to it fail
PeerBreaks(c) ==
    /\ ws_pc[c] \notin {"new", "done"}
    /\ peer_ok[c]
    /\ peer_ok' = [peer_ok EXCEPT ![c] = FALSE]
    /\ last' = [op |-> "peer_breaks", conn |-> c]
    /\ UNCHANGED <<main_vars, active_connections, user_sessions, ws_pc, ws_iter, ws_result,
                   probe_failures, app_vars, store_vars>>

(***************************************************************************)
(* app.py: the metrics scheduler, the cache key real_time_metrics and the  *)
(* unscoped broadcast.  calculate_real_time_metrics, the cache (a          *)
(* synchronous client) and store_system_metrics never yield, so a cycle of *)
(* the scheduler suspends only in the sends of broadcast_to_clients and in *)
(* its sleep.                                                              *)
(***************************************************************************)
AppConns == {"w1", "w2", "w3"}
Broadcasters == {"scheduler", "http"}
CpuSamples == {10}
HttpMessages == {"tool_usage", "payment_received"}
\* what the environment can make fail in one cycle of the scheduler
CycleFaults == {"none", "compute", "cache", "persist"}
NoPass == [active |-> FALSE]
NoSnapshot == [timestamp |-> -1]

Min(a, b) == IF a < b THEN a ELSE b
Range(s) == { s[i] : i \in DOMAIN s }

\* list.remove(x): drops the first occurrence (x is in s)
ListRemove(s, x) ==
    LET i == CHOOSE k \in DOMAIN s : s[k] = x /\ \A j \in 1..(k - 1) : s[j] # x
    IN  SubSeq(s, 1, i - 1) \o SubSeq(s, i + 1, Len(s))

(***************************************************************************)
(* The tables of analytics.db.  A table is a bag of rows; timestamp is the *)
(* second at which the row was inserted (DEFAULT CURRENT_TIMESTAMP), id is *)
(* the order in which the event was posted (history; 0 for the rows a      *)
(* table starts with).  Amounts are thousandths of the currency unit,      *)
(* rates and rounded amounts are hundredths.                               *)
(***************************************************************************)
AppEventTypes == {"page_view", "error", "api_error", "tool_api_call"}
AppUsers == {"u1", "u2", "NULL"}
MemorySamples == {50}

\* event_type LIKE '%_api_%': "api" with at least one character before it
\* and one after it
LikeApi(t) == t \in {"tool_api_call"}

\* event_type LIKE '%_error%': "error" with at least one character before it
LikeError(t) == t \in {"api_error"}

EventRow(t, u, at, id) == [event_type |-> t, user_id |-> u, timestamp |-> at, id |-> id]
PaymentRow(amount, status, at) == [amount |-> amount, status |-> status, timestamp |-> at]
SubscriptionRow(amount, status, cycle) ==
    [amount |-> amount, status |-> status, billing_cycle |-> cycle]
UsageRow(at, id) == [timestamp |-> at, id |-> id]

Database(events, tool_usage, payments, subscriptions) ==
    [events |-> events, tool_usage |-> tool_usage, payments |-> payments,
     subscriptions |-> subscriptions]

\* the locals of one cycle of update_real_time_metrics; db (the tables the
\* snapshot was computed from), seen and failed are history
NoTick == [n |-> 0, started |-> 0 - METRICS_INTERVAL, snapshot |-> NoSnapshot,
           cached |-> FALSE, message |-> "none", persisted |-> FALSE,
           raised |-> "none", seen |-> {}, failed |-> {},
           db |-> Database(EmptyBag, EmptyBag, EmptyBag, EmptyBag)]

\* INSERT of one row
Insert(table, row) == table (+) SetToBag({row})

\* SELECT COUNT(*) over the rows of `rows`, a set of rows of the table
RECURSIVE CountRows(_, _)
CountRows(table, rows) ==
    IF rows = {} THEN 0
    ELSE LET r == CHOOSE x \in rows : TRUE
         IN  CopiesIn(r, table) + CountRows(table, rows \ {r})

\* SELECT SUM(amount) over the rows of `rows`
RECURSIVE SumAmount(_, _)
SumAmount(table, rows) ==
    IF rows = {} THEN 0
    ELSE LET r == CHOOSE x \in rows : TRUE
         IN  CopiesIn(r, table) * r.amount + SumAmount(table, rows \ {r})

\* a window that keeps the row whose timestamp is its edge
Since_Inclusive(table, t, window) ==
    { r \in BagToSet(table) : r.timestamp >= t - window }

\* WHERE timestamp > ?, the parameter being t - window
Since(table, t, window) == { r \in BagToSet(table) : r.timestamp > t - window }

\* round(num / den * scale, 2) in hundredths, num, den and scale naturals:
\* the nearest hundredth, an exact half going to the even one.  (The float
\* computation agrees with this on every num <= den <= 1100 but for halves
\* with den a multiple of 160.)
RoundHundredths(num, den) ==
    LET q == num \div den
        r == num % den
    IN  IF 2 * r < den THEN q
        ELSE IF 2 * r > den THEN q + 1
        ELSE IF q % 2 = 0 THEN q ELSE q + 1

\* error_rate before rounding, as the fraction errors * 100 / total
ErrorRate_OfOthers(errors, total) ==
    IF total - errors > 0 THEN [num |-> errors * 100, den |-> total - errors]
    ELSE [num |-> 0, den |-> 1]

ErrorRate(errors, total) ==
    IF total > 0 THEN [num |-> errors * 100, den |-> total] ELSE [num |-> 0, den |-> 1]

\* "healthy" if error_rate < 5 and cpu_usage < 80 else "warning", error_rate
\* being the value before rounding
SystemHealth(rate, cpu) ==
    IF rate.num < HEALTHY_ERROR_RATE * rate.den /\ cpu < HEALTHY_CPU
    THEN "healthy" ELSE "warning"

\* the snapshot of calculate_real_time_metrics taken at time t
CalculateRealTimeMetrics(db, t, cpu, mem) ==
    LET recent == Since(db.events, t, HOUR)
        active_users ==
            Cardinality({ r.user_id : r \in { x \in recent : x.user_id # "NULL" } })
        api_calls == CountRows(db.events, { r \in recent : LikeApi(r.event_type) })
        errors == CountRows(db.events, { r \in recent : LikeError(r.event_type) })
        total == CountRows(db.events, recent)
        error_rate == ErrorRate(errors, total)
        tools_used == CountRows(db.tool_usage, Since(db.tool_usage, t, HOUR))
        completed == { r \in BagToSet(db.payments) : r.status = "completed" }
        revenue_today ==
            SumAmount(db.payments, completed \cap Since(db.payments, t, DAY))
        total_revenue == SumAmount(db.payments, completed)
        mrr == SumAmount(db.subscriptions,
                   { r \in BagToSet(db.subscriptions) :
                       r.status = "active" /\ r.billing_cycle = "monthly" })
    IN  [timestamp |-> t,
         active_users |-> active_users,
         api_calls_per_minute |-> RoundHundredths(api_calls * 100, MINUTES_PER_HOUR),
         error_rate |-> RoundHundredths(error_rate.num * 100, error_rate.den),
         cpu_usage |-> cpu,
         memory_usage |-> mem,
         tools_used_last_hour |-> tools_used,
         revenue_today |-> RoundHundredths(revenue_today, 10),
         total_revenue |-> RoundHundredths(total_revenue, 10),
         mrr |-> RoundHundredths(mrr, 10),
         arr |-> RoundHundredths(mrr * 12, 10),
         total_events_last_hour |-> api_calls,
         system_health |-> SystemHealth(error_rate, cpu)]

\* the row store_system_metrics inserts
SystemMetricsRow(metrics) ==
    [cpu_usage |-> metrics.cpu_usage, memory_usage |-> metrics.memory_usage,
     active_users |-> metrics.active_users,
     api_calls_per_minute |-> metrics.api_calls_per_minute,
     error_rate |-> metrics.error_rate, at |-> metrics.timestamp]

(***************************************************************************)
(* The cache's counters.  A key holds its value and the time at which it   *)
(* expires, NO_TTL if it has none; an expired key is gone.                 *)
(***************************************************************************)
NO_TTL == -1
NoCounter == [value |-> 0, expires |-> NO_TTL]
CounterKeys ==
    { [kind |-> "event", id |-> t] : t \in AppEventTypes }
    \cup { [kind |-> "user", id |-> u] : u \in AppUsers \ {"NULL"} }
EventKey(event) == [kind |-> "event", id |-> event.event_type]
UserKey(event) == [kind |-> "user", id |-> event.user_id]

Exists(c, t) == c.value > 0 /\ (c.expires = NO_TTL \/ t < c.expires)

\* INCR: a key that is not there starts at 0 and has no TTL
Incr(cs, key, t) ==
    [cs EXCEPT ![key] = IF Exists(@, t) THEN [@ EXCEPT !.value = @ + 1]
                        ELSE [value |-> 1, expires |-> NO_TTL]]

\* EXPIRE key seconds
Expire(cs, key, t, seconds) ==
    [cs EXCEPT ![key] = IF Exists(@, t) THEN [@ EXCEPT !.expires = t + seconds] ELSE @]

\* the two INCRs of update_real_time_counters
IncrementCounters(client, cs, event, t) ==
    IF ~client THEN cs
    ELSE LET c1 == Incr(cs, EventKey(event), t)
         IN  IF event.user_id # "NULL" THEN Incr(c1, UserKey(event), t) ELSE c1

\* update_real_time_counters
UpdateRealTimeCounters(client, cs, event, t) ==
    IF ~client THEN cs
    ELSE Expire(IncrementCounters(client, cs, event, t), EventKey(event), t, COUNTER_TTL)

\* redis setex and get of the key real_time_metrics
CacheSetex_IntervalTtl(metrics, t) ==
    [present |-> TRUE, value |-> metrics, expires |-> t + METRICS_INTERVAL]

CacheSetex(metrics, t) ==
    [present |-> TRUE, value |-> metrics, expires |-> t + METRICS_TTL]

CacheGet(cache, t) ==
    IF cache.present /\ t < cache.expires THEN cache.value ELSE NoSnapshot

\* the cache step of a cycle: whether it raises and whether it writes
CacheStep(client, fault) ==
    [raised |-> (client /\ fault = "cache"), writes |-> (client /\ fault # "cache")]

\* what the loop does with an exception of a cycle
OnCycleError_Stop == "stopped"

OnCycleError == "sleep"

InitApp ==
    /\ app_redis_client = FALSE
    /\ now = 0
    /\ cache_metrics = [present |-> FALSE]
    /\ written = [present |-> FALSE]
    /\ sched_pc = "unloaded"
    /\ sched_wake = 0
    /\ sched_metrics = NoSnapshot
    /\ tick = NoTick
    /\ app_active_connections = << >>
    /\ app_ws_pc = [w \in AppConns |-> "new"]
    /\ app_peer_ok = [w \in AppConns |-> TRUE]
    /\ pass = [b \in Broadcasters |-> NoPass]
    /\ http_calls = 0
    /\ system_metrics = << >>

\* the tables as init_database creates them, and an empty cache
InitStore ==
    /\ db_events = EmptyBag
    /\ db_tool_usage = EmptyBag
    /\ db_payments = EmptyBag
    /\ db_subscriptions = EmptyBag
    /\ analytics_queue = << >>
    /\ counters = [k \in CounterKeys |-> NoCounter]
    /\ tracked = 0

Init == InitMain /\ InitApp /\ InitStore

(***************************************************************************)
(* Import of app.py: the cache is pinged once and redis_client is None if  *)
(* the ping fails; AnalyticsManager() creates the scheduler task.          *)
(***************************************************************************)
AppImport(redis_ok) ==
    /\ sched_pc = "unloaded"
    /\ app_redis_client' = redis_ok
    /\ sched_pc' = "sleep"
    /\ sched_wake' = now
    /\ last' = [op |-> "app_import"]
    /\ UNCHANGED <<main_vars, hub_vars, store_vars, now, cache_metrics, written, sched_metrics, tick,
                   app_active_connections, app_ws_pc, app_peer_ok, pass, http_calls,
                   system_metrics>>

\* time passes while the scheduler sleeps, up to the end of its sleep
AdvanceClock ==
    /\ sched_pc = "sleep"
    /\ now < sched_wake
    /\ now < MaxTime
    /\ now' = Min(now + ClockStep, sched_wake)
    /\ last' = [op |-> "clock"]
    /\ UNCHANGED <<main_vars, hub_vars, store_vars, app_redis_client, cache_metrics, written, sched_pc,
                   sched_wake, sched_metrics, tick, app_active_connections, app_ws_pc,
                   app_peer_ok, pass, http_calls, system_metrics>>

(***************************************************************************)
(* broadcast_to_clients.  The for loop walks the global list by position   *)
(* and suspends in every send; failed connections are collected and        *)
(* removed with list.remove after the loop, which raises ValueError for a  *)
(* connection that is no longer in the list.  A pass record holds the      *)
(* locals of one call: the position of the list iterator, the connection   *)
(* whose send is in flight, the list disconnected; members, broken and     *)
(* sent are history.                                                       *)
(***************************************************************************)
NewPass(event_type, data, conns, peers) ==
    [active |-> TRUE, type |-> event_type, data |-> data, idx |-> 1, to |-> conns[1],
     disconnected |-> << >>, sent |-> {},
     members |-> Range(conns), broken |-> { w \in Range(conns) : ~peers[w] }]

RECURSIVE RemoveDisconnected(_, _)
RemoveDisconnected(conns, disconnected) ==
    IF disconnected = << >> THEN [raised |-> FALSE, conns |-> conns]
    ELSE IF Head(disconnected) \notin Range(conns) THEN [raised |-> TRUE, conns |-> conns]
    ELSE RemoveDisconnected(ListRemove(conns, Head(disconnected)), Tail(disconnected))

\* the send in flight ends, and the pass runs to its next send or to its end
PassStep(p, conns, peers) ==
    LET q == IF peers[p.to]
             THEN [p EXCEPT !.sent = @ \cup {p.to}]
             ELSE [p EXCEPT !.disconnected = Append(@, p.to)]
    IN  IF q.idx < Len(conns)
        THEN [kind |-> "send", conns |-> conns,
              pass |-> [q EXCEPT !.idx = @ + 1, !.to = conns[q.idx + 1]]]
        ELSE LET r == RemoveDisconnected(conns, q.disconnected)
             IN  [kind |-> IF r.raised THEN "raised" ELSE "returned",
                  conns |-> r.conns, pass |-> q]

PassEnded(b, r) ==
    [op |-> "broadcast_end", by |-> b, type |-> r.pass.type, raised |-> (r.kind = "raised"),
     members |-> r.pass.members, broken |-> r.pass.broken, sent |-> r.pass.sent]

(***************************************************************************)
(* update_real_time_metrics: one cycle of the loop.  SchedTick runs from   *)
(* the end of the sleep to the first send of the broadcast (or to the next *)
(* sleep when nothing suspends), SchedBroadcast from the end of a send to  *)
(* the next one, or through store_system_metrics to the sleep.             *)
(***************************************************************************)
NewTick == [NoTick EXCEPT !.n = tick.n + 1, !.started = now, !.failed = tick.failed]

\* the except clause and the sleep that follows the try statement
EndCycle(tk, raised, rows) ==
    /\ sched_pc' = IF raised = "none" THEN "sleep" ELSE OnCycleError
    /\ sched_wake' = now + METRICS_INTERVAL
    /\ tick' = [tk EXCEPT !.raised = raised,
                          !.failed = IF raised = "none" THEN @ ELSE @ \cup {raised}]
    /\ system_metrics' = rows

\* store_system_metrics and the end of the cycle
PersistAndEnd(tk, metrics, fault) ==
    IF fault = "persist"
    THEN EndCycle(tk, "persist", system_metrics)
    ELSE EndCycle([tk EXCEPT !.persisted = TRUE], "none",
                  Append(system_metrics, SystemMetricsRow(metrics)))

SchedTick(fault, cpu, mem) ==
    LET db == Database(db_events, db_tool_usage, db_payments, db_subscriptions)
        metrics == CalculateRealTimeMetrics(db, now, cpu, mem)
        cs == CacheStep(app_redis_client, fault)
        message == [type |-> "metrics_update", data |-> metrics]
        t1 == [NewTick EXCEPT !.snapshot = metrics, !.db = db]
        t2 == [t1 EXCEPT !.cached = cs.writes, !.message = message]
    IN  /\ sched_pc = "sleep"
        /\ now >= sched_wake
        /\ fault = "cache" => app_redis_client
        /\ last' = [op |-> "tick", n |-> tick.n + 1,
                    snapshot |-> IF fault = "compute" THEN NoSnapshot ELSE metrics,
                    db |-> db, previous |-> tick]
        /\ IF fault = "compute"
           THEN /\ EndCycle(NewTick, "compute", system_metrics)
                /\ UNCHANGED <<sched_metrics, cache_metrics, written, pass>>
           ELSE /\ sched_metrics' = metrics
                /\ IF cs.raised
                   THEN /\ EndCycle(t1, "cache", system_metrics)
                        /\ UNCHANGED <<cache_metrics, written, pass>>
                   ELSE /\ cache_metrics' = IF cs.writes THEN CacheSetex(metrics, now)
                                            ELSE cache_metrics
                        /\ written' = IF cs.writes
                                      THEN [present |-> TRUE, value |-> metrics, at |-> now]
                                      ELSE written
                        /\ IF app_active_connections = << >>
                           THEN /\ PersistAndEnd(t2, metrics, fault)
                                /\ UNCHANGED pass
                           ELSE /\ pass' = [pass EXCEPT !["scheduler"] =
                                              NewPass("metrics_update", metrics,
                                                      app_active_connections, app_peer_ok)]
                                /\ sched_pc' = "broadcast"
                                /\ tick' = t2
                                /\ UNCHANGED <<sched_wake, system_metrics>>
        /\ UNCHANGED <<main_vars, hub_vars, store_vars, app_redis_client, now, app_active_connections,
                       app_ws_pc, app_peer_ok, http_calls>>

SchedBroadcast(fault) ==
    LET r == PassStep(pass["scheduler"], app_active_connections, app_peer_ok)
        tk == [tick EXCEPT !.seen = r.pass.sent]
    IN  /\ sched_pc = "broadcast"
        /\ app_active_connections' = r.conns
        /\ CASE r.kind = "send" ->
                  /\ pass' = [pass EXCEPT !["scheduler"] = r.pass]
                  /\ fault = "none"
                  /\ last' = [op |-> "send", by |-> "scheduler"]
                  /\ UNCHANGED <<sched_pc, sched_wake, tick, system_metrics>>
             [] r.kind = "raised" ->
                  /\ pass' = [pass EXCEPT !["scheduler"] = NoPass]
                  /\ fault = "none"
                  /\ last' = PassEnded("scheduler", r)
                  /\ EndCycle(tk, "broadcast", system_metrics)
             [] r.kind = "returned" ->
                  /\ pass' = [pass EXCEPT !["scheduler"] = NoPass]
                  /\ last' = PassEnded("scheduler", r)
                  /\ PersistAndEnd(tk, sched_metrics, fault)
        /\ UNCHANGED <<main_vars, hub_vars, store_vars, app_redis_client, now, cache_metrics, written,
                       sched_metrics, app_ws_pc, app_peer_ok, http_calls>>

(***************************************************************************)
(* track_tool_usage and track_payment: the broadcast they make after the   *)
(* insert, and its end (an exception of the pass becomes an HTTP 500).     *)
(***************************************************************************)
HttpBroadcast(event_type) ==
    /\ sched_pc # "unloaded"
    /\ ~pass["http"].active
    /\ http_calls < MaxHttpCalls
    /\ http_calls' = http_calls + 1
    /\ IF event_type = "tool_usage"
       THEN /\ db_tool_usage' = Insert(db_tool_usage, UsageRow(now, http_calls + 1))
            /\ UNCHANGED db_payments
       ELSE /\ db_payments' = Insert(db_payments, PaymentRow(1999, "completed", now))
            /\ UNCHANGED db_tool_usage
    /\ IF app_active_connections = << >>
       THEN /\ last' = [op |-> "http_done", status |-> 200]
            /\ UNCHANGED pass
       ELSE /\ pass' = [pass EXCEPT !["http"] =
                          NewPass(event_type, "usage", app_active_connections, app_peer_ok)]
            /\ last' = [op |-> "send", by |-> "http"]
    /\ UNCHANGED <<main_vars, hub_vars, app_redis_client, now, cache_metrics, written,
                   sched_pc, sched_wake, sched_metrics, tick, app_active_connections,
                   app_ws_pc, app_peer_ok, system_metrics, db_events, db_subscriptions,
                   analytics_queue, counters, tracked>>

HttpBroadcastStep ==
    LET r == PassStep(pass["http"], app_active_connections, app_peer_ok)
    IN  /\ pass["http"].active
        /\ app_active_connections' = r.conns
        /\ pass' = [pass EXCEPT !["http"] = IF r.kind = "send" THEN r.pass ELSE NoPass]
        /\ last' = IF r.kind = "send" THEN [op |-> "send", by |-> "http"]
                   ELSE PassEnded("http", r)
        /\ UNCHANGED <<main_vars, hub_vars, store_vars, app_redis_client, now, cache_metrics, written,
                       sched_pc, sched_wake, sched_metrics, tick, app_ws_pc, app_peer_ok,
                       http_calls, system_metrics>>

(***************************************************************************)
(* websocket_endpoint of app.py.  After accept the handler appends itself, *)
(* reads the key real_time_metrics if there is a client, sends it if it is *)
(* there, and then waits for messages; every exception ends in the finally *)
(* clause, which removes the connection if it is still in the list.        *)
(***************************************************************************)
\* a finally clause that leaves the list as it is
AppCleanup_Keep(conns, w) == conns

AppCleanup(conns, w) == IF w \in Range(conns) THEN ListRemove(conns, w) ELSE conns

MetricsRead(reader, value) ==
    [op |-> "read_metrics", reader |-> reader, value |-> value, at |-> now]

AppWebsocketConnect(w, cache_fault) ==
    LET metrics == CacheGet(cache_metrics, now)
    IN  /\ sched_pc # "unloaded"
        /\ app_ws_pc[w] = "new"
        /\ cache_fault => app_redis_client
        /\ IF ~app_redis_client
           THEN /\ app_active_connections' = Append(app_active_connections, w)
                /\ app_ws_pc' = [app_ws_pc EXCEPT ![w] = "receive"]
                /\ last' = [op |-> "connect", conn |-> w]
                /\ UNCHANGED app_peer_ok
           ELSE IF cache_fault
           THEN /\ app_ws_pc' = [app_ws_pc EXCEPT ![w] = "done"]
                /\ app_peer_ok' = [app_peer_ok EXCEPT ![w] = FALSE]
                /\ last' = [op |-> "handler_exit", conn |-> w]
                /\ UNCHANGED app_active_connections
           ELSE /\ app_active_connections' = Append(app_active_connections, w)
                /\ app_ws_pc' = [app_ws_pc EXCEPT ![w] =
                                    IF metrics = NoSnapshot THEN "receive" ELSE "initial"]
                /\ last' = MetricsRead(w, metrics)
                /\ UNCHANGED app_peer_ok
        /\ UNCHANGED <<main_vars, hub_vars, store_vars, app_redis_client, now, cache_metrics, written,
                       sched_pc, sched_wake, sched_metrics, tick, pass, http_calls,
                       system_metrics>>

\* the send of initial_metrics ends, or receive_text raises
AppWebsocketResume(w) ==
    /\ \/ app_ws_pc[w] = "initial"
       \/ app_ws_pc[w] = "receive" /\ ~app_peer_ok[w]
    /\ IF app_peer_ok[w]
       THEN /\ app_ws_pc' = [app_ws_pc EXCEPT ![w] = "receive"]
            /\ last' = [op |-> "initial_sent", conn |-> w]
            /\ UNCHANGED app_active_connections
       ELSE /\ app_ws_pc' = [app_ws_pc EXCEPT ![w] = "done"]
            /\ app_active_connections' = AppCleanup(app_active_connections, w)
            /\ last' = [op |-> "handler_exit", conn |-> w]
    /\ UNCHANGED <<main_vars, hub_vars, store_vars, app_redis_client, now, cache_metrics, written,
                   sched_pc, sched_wake, sched_metrics, tick, app_peer_ok, pass,
                   http_calls, system_metrics>>

\* environment: the client of a connection goes away
AppPeerBreaks(w) ==
    /\ app_ws_pc[w] \in {"initial", "receive"}
    /\ app_peer_ok[w]
    /\ app_peer_ok' = [app_peer_ok EXCEPT ![w] = FALSE]
    /\ last' = [op |-> "peer_breaks", conn |-> w]
    /\ UNCHANGED <<main_vars, hub_vars, store_vars, app_redis_client, now, cache_metrics, written,
                   sched_pc, sched_wake, sched_metrics, tick, app_active_connections,
                   app_ws_pc, pass, http_calls, system_metrics>>

\* get_dashboard_analytics: its read of the key real_time_metrics
GetDashboardAnalytics ==
    /\ sched_pc # "unloaded"
    /\ app_redis_client
    /\ last' = MetricsRead("dashboard", CacheGet(cache_metrics, now))
    /\ UNCHANGED <<main_vars, hub_vars, app_vars, store_vars>>

(***************************************************************************)
(* track_event of app.py (POST /api/events), process_event and the queue   *)
(* drainer process_analytics_queue.  The cache client and sqlite are       *)
(* synchronous, so each of them runs without suspension.                   *)
(***************************************************************************)
AppEvent(t, u) == [event_type |-> t, user_id |-> u, id |-> 0]

\* the INSERT of process_event
StoreEvent_Skip(table, event, t) == table

StoreEvent(table, event, t) ==
    Insert(table, EventRow(event.event_type, event.user_id, t, event.id))

\* which path track_event takes
TrackPath(client) == IF client THEN "queue" ELSE "store"

\* fault: the rpush, or the INSERT, raises
AppTrackEvent(event, fault) ==
    LET ev == [event EXCEPT !.id = tracked + 1]
        path == TrackPath(app_redis_client)
    IN  /\ sched_pc # "unloaded"
        /\ tracked < MaxTracked
        /\ tracked' = tracked + 1
        /\ IF fault
           THEN UNCHANGED <<analytics_queue, db_events, counters>>
           ELSE IF path = "queue"
           THEN /\ analytics_queue' = Append(analytics_queue, ev)
                /\ UNCHANGED <<db_events, counters>>
           ELSE /\ db_events' = StoreEvent(db_events, ev, now)
                /\ counters' = UpdateRealTimeCounters(app_redis_client, counters, ev, now)
                /\ UNCHANGED analytics_queue
        /\ last' = [op |-> "track_event", event |-> ev,
                    status |-> IF fault THEN 500 ELSE 200,
                    queue_before |-> analytics_queue, events_before |-> db_events]
        /\ UNCHANGED <<main_vars, hub_vars, app_vars, db_tool_usage, db_payments,
                       db_subscriptions>>

\* one pass of the loop of process_analytics_queue that finds an event;
\* fault: the lpop, the INSERT (or its commit), the first INCR of the
\* counters or their EXPIRE raises
DrainFaults == {"none", "lpop", "insert", "counters", "expire"}

\* a process_event that updates the counters first and inserts last: only
\* a failed lpop keeps it from the counters
EndsBeforeCounters_InsertLast(fault) == fault \in {"lpop"}

\* the faults that end the pass before update_real_time_counters is called:
\* the call follows the INSERT and its commit
EndsBeforeCounters(fault) == fault \in {"lpop", "insert"}

\* the counters after the pass
CountersAfter(fault, client, cs, event, t) ==
    IF EndsBeforeCounters(fault) \/ fault = "counters" THEN cs
    ELSE IF fault = "expire" THEN IncrementCounters(client, cs, event, t)
    ELSE UpdateRealTimeCounters(client, cs, event, t)

\* a read of the head of the list that leaves it there
Lpop_Peek(queue) == queue

\* LPOP: what is left of the list
Lpop(queue) == Tail(queue)

ProcessAnalyticsQueue(fault) ==
    LET ev == Head(analytics_queue)
    IN  /\ sched_pc # "unloaded"
        /\ app_redis_client
        /\ analytics_queue # << >>
        /\ analytics_queue' = IF fault = "lpop" THEN analytics_queue
                               ELSE Lpop(analytics_queue)
        /\ db_events' = IF fault \in {"lpop", "insert"} THEN db_events
                         ELSE StoreEvent(db_events, ev, now)
        /\ counters' = CountersAfter(fault, app_redis_client, counters, ev, now)
        /\ last' = [op |-> "drain", event |-> ev, raised |-> fault]
        /\ UNCHANGED <<main_vars, hub_vars, app_vars, db_tool_usage, db_payments,
                       db_subscriptions, tracked>>

\* the ingestion exploration: events posted to /api/events and drained
\* from the queue, with and without a cache
StoreInputs ==
    { AppEvent(t, u) : t \in {"page_view", "api_error"}, u \in {"u1", "NULL"} }

NextStore ==
    \/ \E redis_ok \in BOOLEAN : AppImport(redis_ok)
    \/ \E e \in StoreInputs, f \in BOOLEAN : AppTrackEvent(e, f)
    \/ \E f \in DrainFaults : ProcessAnalyticsQueue(f)

\* the broadcast exploration: the passes the HTTP endpoints start, over
\* three connections
NextBroadcast ==
    \/ \E redis_ok \in BOOLEAN : AppImport(redis_ok)
    \/ \E t \in HttpMessages : HttpBroadcast(t)
    \/ HttpBroadcastStep
    \/ \E w \in AppConns : AppWebsocketConnect(w, FALSE)
    \/ \E w \in AppConns : AppWebsocketResume(w)
    \/ \E w \in AppConns : AppPeerBreaks(w)

\* the scheduler exploration: the cycles of the scheduler over time, with
\* every fault, two connections and the readers of the cache
SchedConns == {"w1", "w2"}

SchedNext ==
    \/ \E fault \in CycleFaults, cpu \in CpuSamples, mem \in MemorySamples :
          SchedTick(fault, cpu, mem)
    \/ \E fault \in {"none", "persist"} : SchedBroadcast(fault)

NextSched ==
    \/ \E redis_ok \in BOOLEAN : AppImport(redis_ok)
    \/ AdvanceClock
    \/ SchedNext
    \/ \E w \in SchedConns, f \in BOOLEAN : AppWebsocketConnect(w, f)
    \/ \E w \in SchedConns : AppWebsocketResume(w)
    \/ \E w \in SchedConns : AppPeerBreaks(w)
    \/ GetDashboardAnalytics

InitApps == Init /\ redis_up

SpecBroadcast == InitApps /\ [][NextBroadcast]_vars

SpecSched == InitApps /\ [][NextSched]_vars

SpecStore == InitApps /\ [][NextStore]_vars

\* the loop of process_analytics_queue catches every exception and sleeps
\* outside its try statement, so it comes round every second for as long as
\* the process lives: a pass that finds the cache answering is taken in
\* the end
SpecDrainFair ==
    InitApps /\ [][NextStore]_vars /\ WF_vars(ProcessAnalyticsQueue("none"))

(***************************************************************************)
(* The metrics exploration: the service starts on a database file that     *)
(* already holds rows (analytics.db outlives the process), and the         *)
(* scheduler computes a snapshot every 30 s.  Times are relative to the    *)
(* import, so stored rows carry negative timestamps; the ids of the stored *)
(* rows, which no query reads, are left 0.                                 *)
(***************************************************************************)
ErrorCounts == {0, 1, 2, 50, 51}
ErrorTypes == {"api_error", "error"}
OtherCounts == {0, 951}
ApiCounts == {0, 7}
\* a row about to leave the window of one hour, and a fresh one
StoredAt == {0 - 3570, 0 - 10}
\* a payment about to leave the window of one day, and a fresh one
PaidAt == {0 - 86370, 0 - 10}
PaymentCounts == {0, 2}
SubscriptionCounts == {0, 1}
HostCpu == {79, 80}
MetricsFaults == {"none", "compute"}

Copies(row, n) == [r \in (IF n = 0 THEN {} ELSE {row}) |-> n]

StoredEvents(errs, error_type, at, others, apis) ==
    Copies(EventRow(error_type, "u1", at, 0), errs)
        (+) Copies(EventRow("page_view", "u2", 0 - 10, 0), others)
        (+) Copies(EventRow("tool_api_call", "NULL", 0 - 10, 0), apis)

StoredPayments(n, at) ==
    Copies(PaymentRow(1999, "completed", at), n)
        (+) Copies(PaymentRow(2504, "pending", 0 - 10), n)

StoredSubscriptions(n) ==
    Copies(SubscriptionRow(9990, "active", "monthly"), n)
        (+) Copies(SubscriptionRow(99900, "active", "yearly"), n)
        (+) Copies(SubscriptionRow(9990, "cancelled", "monthly"), n)

InitMetrics ==
    /\ InitMain
    /\ redis_up
    /\ InitApp
    /\ \E errs \in ErrorCounts, error_type \in ErrorTypes, at \in StoredAt,
          others \in OtherCounts, apis \in ApiCounts :
          /\ db_events = StoredEvents(errs, error_type, at, others, apis)
          /\ db_tool_usage = Copies(UsageRow(at, 0), 1)
    /\ \E n \in PaymentCounts, at \in PaidAt : db_payments = StoredPayments(n, at)
    /\ \E n \in SubscriptionCounts : db_subscriptions = StoredSubscriptions(n)
    /\ analytics_queue = << >>
    /\ counters = [k \in CounterKeys |-> NoCounter]
    /\ tracked = 0

NextMetrics ==
    \/ \E redis_ok \in BOOLEAN : AppImport(redis_ok)
    \/ AdvanceClock
    \/ \E fault \in MetricsFaults, cpu \in HostCpu, mem \in MemorySamples :
          SchedTick(fault, cpu, mem)

SpecMetrics == InitMetrics /\ [][NextMetrics]_vars

\* the loop exploration: the cycles of the scheduler over time, with every
\* fault and one connection
LoopConns == {"w1"}

NextLoop ==
    \/ \E redis_ok \in BOOLEAN : AppImport(redis_ok)
    \/ AdvanceClock
    \/ SchedNext
    \/ \E w \in LoopConns, f \in BOOLEAN : AppWebsocketConnect(w, f)
    \/ \E w \in LoopConns : AppWebsocketResume(w)
    \/ \E w \in LoopConns : AppPeerBreaks(w)

\* the event loop runs the scheduler when it can run, and time passes
SpecLoopFair ==
    InitApps /\ [][NextLoop]_vars /\ WF_vars(SchedNext) /\ WF_vars(AdvanceClock)

(***************************************************************************)
(* Inputs of the explorations.                                             *)
(***************************************************************************)
\* the buffer-cap exploration ingests one class of event
BufferInputs == { Event("page_view", "A", "org1", "unknown", TRUE, 0) }

\* the anomaly exploration: API calls of two users and errors
AnomalyInputs ==
    { Event("api_call", "A", "org1", "unknown", TRUE, 0),
      Event("api_call", "B", "org1", "unknown", TRUE, 0),
      Event("error", "A", "org1", "unknown", TRUE, 0) }

\* the fail-soft exploration: every event type, payments with an amount
\* float() accepts and one it rejects
IngestInputs ==
    { Event(t, "A", "org1", "t1", TRUE, 0) : t \in EventTypes \ {"payment"} }
    \cup { Event("payment", "A", "org1", "unknown", ok, 5) : ok \in BOOLEAN }

SameClass(e1, e2) == e1.event_type = e2.event_type /\ e1.user_id = e2.user_id

\* an ingest of the anomaly exploration: the class changes at most
\* MaxSwitches times along the sequence
AnomalyIngest(event) ==
    LET sw == IF data_buffer # << >> /\ ~SameClass(data_buffer[Len(data_buffer)], event)
              THEN 1 ELSE 0
    IN  /\ next_seq <= MaxAnomalyEvents
        /\ switches + sw <= MaxSwitches
        /\ switches' = switches + sw
        /\ TrackEvent("rest", event)

BufferIngest(event) ==
    /\ next_seq <= MaxBufferEvents
    /\ UNCHANGED switches
    /\ TrackEvent("rest", event)

Ingest(r, event) ==
    /\ next_seq <= MaxIngestEvents
    /\ UNCHANGED switches
    /\ TrackEvent(r, event)

\* the subscriber exploration: one event type, sent by subscribers
OrgInputs == { Event("api_call", "A", "org1", "unknown", TRUE, 0) }

NextBuffer ==
    \/ \E url_ok \in BOOLEAN : StartupEvent(url_ok)
    \/ \E e \in BufferInputs : BufferIngest(e)
    \/ TrackEventReturn("rest")
    \/ BackgroundAnalyticsProcessing

\* with at most MaxAnomalyEvents events buffered the trimming loop changes
\* nothing, and is left out
NextAnomaly ==
    \/ StartupEvent(TRUE)
    \/ \E e \in AnomalyInputs : AnomalyIngest(e)
    \/ TrackEventReturn("rest")

NextIngest ==
    \/ \E url_ok \in BOOLEAN : StartupEvent(url_ok)
    \/ RedisToggle
    \/ \E r \in RestCalls, e \in IngestInputs : Ingest(r, e)
    \/ \E r \in RestCalls : TrackEventReturn(r)
    \/ BackgroundAnalyticsProcessing

\* the connections of the subscriber exploration: two of org1, one of org2
OrgConns == {"c1", "c2", "c3"}

NextOrg ==
    \/ StartupEvent(TRUE)
    \/ \E c \in OrgConns : WebsocketConnect(c)
    \/ \E c \in OrgConns : WebsocketInitial(c)
    \/ \E c \in OrgConns, e \in OrgInputs : WebsocketTrackEvent(c, e)
    \/ \E c \in OrgConns : WebsocketProcessed(c)
    \/ \E c \in OrgConns : WebsocketReply(c)
    \/ \E c \in OrgConns : BroadcastToOrganization(c)
    \/ \E c \in OrgConns : WebsocketBadMessage(c)
    \/ \E c \in OrgConns : WebsocketGetDashboard(c)
    \/ \E c \in OrgConns : WebsocketTimeout(c)
    \/ \E c \in OrgConns : WebsocketDisconnected(c)
    \/ \E c \in OrgConns : PeerBreaks(c)

SpecOrg == Init /\ [][NextOrg]_vars

\* the scoped broadcast among four connections (three of org1, one of
\* org2): connections come and go while c1 and c3 send track_event
Senders == {"c1", "c3"}

NextScope ==
    \/ StartupEvent(TRUE)
    \/ \E c \in Conns : WebsocketConnect(c)
    \/ \E c \in Conns : WebsocketInitial(c)
    \/ \E c \in Senders, e \in OrgInputs : WebsocketTrackEvent(c, e)
    \/ \E c \in Senders : WebsocketProcessed(c)
    \/ \E c \in Senders : WebsocketReply(c)
    \/ \E c \in Senders : BroadcastToOrganization(c)
    \/ \E c \in Conns : WebsocketDisconnected(c)
    \/ \E c \in Conns : PeerBreaks(c)

SpecScope == InitApps /\ [][NextScope]_vars

\* the subscriber registries of both services: a run is one of main.py or
\* one of app.py (each is a process of its own)
NextRegistry ==
    \/ sched_pc = "unloaded" /\ NextOrg
    \/ ~started /\ NextBroadcast

SpecRegistry == InitApps /\ [][NextRegistry]_vars

SpecBuffer == Init /\ [][NextBuffer]_vars
SpecAnomaly == Init /\ [][NextAnomaly]_vars
SpecIngest == Init /\ [][NextIngest]_vars

(***************************************************************************)
(* Properties of the ingestion path (main.py).                             *)
(***************************************************************************)
InList(x, s) == \E i \in DOMAIN s : s[i] = x
HasType(s, t) == \E i \in DOMAIN s : s[i].type = t
Completed == last.op = "process_event"
Trailing(n) == { i \in DOMAIN data_buffer : i > Len(data_buffer) - n }
TrailingApiCalls(u) ==
    Cardinality({ i \in Trailing(50) :
        data_buffer[i].event_type = "api_call" /\ data_buffer[i].user_id = u })
TrailingErrors ==
    Cardinality({ i \in Trailing(20) : data_buffer[i].event_type = "error" })

\* C3: in every reachable state the Event Buffer holds at most 1000 events,
\* whatever the ingests and the ticks of the trimming loop, also when the
\* cache was unreachable at startup.
C3_BufferNeverExceedsCap == Len(data_buffer) <= 1000

\* C4: whenever the buffer is trimmed, the buffer after the trim is the last
\* 1000 events of the buffer before it, in their order, and every dropped
\* event was ingested before every event that is kept.
C4_TrimDropsOldest ==
    last.op = "trim" =>
        LET before == last.before
            dropped == Len(before) - Len(data_buffer)
        IN  /\ Len(data_buffer) = 1000
            /\ \A i \in 1..1000 : data_buffer[i] = before[dropped + i]
            /\ \A i \in 1..dropped :
                  \A j \in DOMAIN data_buffer : before[i].seq < data_buffer[j].seq

\* a trim that dropped at least two events
C4_TrimmedTwo == last.op = "trim" /\ Len(last.before) >= 1002

C10_StepsFailSoft ==
    (Completed /\ last.raised \in {"metrics", "redis"}) =>
        /\ "insights" \in DOMAIN last.result
        /\ "anomalies" \in DOMAIN last.result
        /\ last.result.insights = GenerateInsights(data_buffer)
        /\ last.result.anomalies = DetectAnomalies(data_buffer, last.event)

(***************************************************************************)
(* Properties of the organization-scoped hub (main.py).                    *)
(***************************************************************************)
Registered(c) == c \in Keys(active_connections) \/ user_sessions[c] # "absent"

\* C2: a connection whose send fails during an organization-scoped
\* broadcast is evicted: once that broadcast returns, the connection is in
\* neither active_connections nor user_sessions.
C2_FailedSendEvicts ==
    last.op = "broadcast_return" => \A f \in last.failed : ~Registered(f)

(***************************************************************************)
(* Properties of the scheduler, the cache key and the unscoped broadcast   *)
(* (app.py).                                                               *)
(***************************************************************************)
AppRegistered(w) == w \in Range(app_active_connections)
PassEnd == last.op = "broadcast_end"
CycleOver == tick.n >= 1 /\ sched_pc # "broadcast"

\* C1: when a pass of broadcast_to_clients ends, it has returned, every
\* connection that was registered when it began and whose client was already
\* gone (its send always fails) is out of active_connections, and every
\* connection that was registered when it began and whose client still takes
\* messages has been sent the message by this pass.
C1_BroadcastIsolation ==
    PassEnd =>
        /\ ~last.raised
        /\ \A w \in last.broken : ~AppRegistered(w)
        /\ \A w \in last.members \ last.broken : app_peer_ok[w] => w \in last.sent

\* C6: with redis_client None, every cycle of the scheduler in which neither
\* the computation of the snapshot nor the insert fails has left the cache
\* alone, has called broadcast_to_clients with "metrics_update" and the
\* snapshot of the cycle, and has appended the row of that snapshot to
\* system_metrics before it sleeps.
C6_DegradedCycleBroadcastsAndPersists ==
    (~app_redis_client /\ CycleOver /\ tick.raised \notin {"compute", "persist"}) =>
        /\ tick.raised # "cache"
        /\ ~tick.cached
        /\ ~cache_metrics.present
        /\ tick.message = [type |-> "metrics_update", data |-> tick.snapshot]
        /\ tick.persisted
        /\ system_metrics # << >>
        /\ system_metrics[Len(system_metrics)] = SystemMetricsRow(tick.snapshot)

\* C7 as stated: once a first snapshot has been written, every read of the
\* key real_time_metrics finds the snapshot of the latest write.
C7_ReaderAlwaysFindsLatest ==
    (last.op = "read_metrics" /\ written.present) => last.value = written.value

\* C7 amended: a read of the key real_time_metrics less than 60 seconds
\* after the latest write finds the snapshot of that write; a read 60
\* seconds or more after it finds nothing.
C7_ReaderFindsLatestWithinTtl ==
    last.op = "read_metrics" =>
        IF written.present /\ now < written.at + 60
        THEN last.value = written.value
        ELSE last.value = NoSnapshot

\* a read between ticks, 40 seconds or more after the latest write, that
\* finds the snapshot
C7_LateReadBetweenTicks ==
    /\ last.op = "read_metrics"
    /\ written.present
    /\ now >= written.at + 40
    /\ last.value = written.value
    /\ tick.n >= 2

\* C5: once the scheduler task exists, whatever a cycle did and whichever
\* of its steps raised, another cycle follows it, as long as its interval
\* ends within the time explored.
C5_AnotherCycleFollows ==
    \A n \in 0..(MaxTime \div METRICS_INTERVAL + 1) :
        (sched_pc # "unloaded" /\ tick.n = n /\ tick.started + METRICS_INTERVAL <= MaxTime)
            ~> (tick.n = n + 1)

\* a cycle that began after cycles in which the computation, the cache
\* write, the broadcast and the insert raised
C5_CycleAfterFailures ==
    /\ tick.failed = {"compute", "cache", "broadcast", "persist"}
    /\ tick.n >= 5
    /\ tick.raised = "none"
    /\ tick.persisted

(***************************************************************************)
(* Properties of the ingestion path and of the metrics aggregator (app.py).*)
(***************************************************************************)
\* C11: every counter key that exists in the cache carries a TTL, of at most
\* 24 hours from now.
C11_CounterKeysExpire ==
    \A k \in CounterKeys :
        Exists(counters[k], now) =>
            /\ counters[k].expires # NO_TTL
            /\ counters[k].expires <= now + 86400

(***************************************************************************)
(* Properties of the subscriber registries and of the subscription channel *)
(* of main.py.                                                             *)
(***************************************************************************)
\* C12: a connection whose handler has ended (or has not begun) is in no
\* registry: active_connections and user_sessions of main.py and the list
\* active_connections of app.py hold only connections whose handler runs.
C12_NoSubscriberLeak ==
    /\ \A c \in Conns : Registered(c) => ws_pc[c] \notin {"new", "done"}
    /\ \A w \in AppConns : AppRegistered(w) => app_ws_pc[w] \notin {"new", "done"}

\* a handler of main.py that had registered its connection has just ended,
\* while another connection is registered
C12_HandlerEnded ==
    /\ last.op = "handler_exit"
    /\ last.conn \in Conns
    /\ last.cause \in {"send", "message", "ping", "disconnect", "RuntimeError"}
    /\ \E c \in Conns : Registered(c)

\* C13: a ping that was sent leaves the connection open and registered, and
\* a handler that ends because of the keepalive has failed to send three
\* pings in a row.
C13_ClosesAfterThreeFailedProbes ==
    /\ (last.op = "send" /\ "type" \in DOMAIN last /\ last.type = "ping") =>
          ws_pc[last.to] = "recv" /\ Registered(last.to)
    /\ (last.op = "handler_exit" /\ last.conn \in Conns /\ last.cause = "ping") =>
          probe_failures[last.conn] >= 3

\* C16: after a track_event message whose data does not validate, the
\* client has been sent an error message, the connection is registered and
\* its handler is receiving, and the buffer, the in-process counters, the
\* cache and the registry are as they were before the message.
C16_MalformedMessageRejected ==
    (last.op = "handler_exit" /\ last.conn \in Conns /\ last.cause = "message") =>
        /\ last.reply = "error"
        /\ Registered(last.conn)
        /\ ws_pc[last.conn] = "recv"
        /\ data_buffer = last.before.data_buffer
        /\ real_time_metrics = last.before.real_time_metrics
        /\ redis_store = last.before.redis_store
        /\ Keys(active_connections) = last.before.registry

\* a pass of broadcast_to_organization has just ended, by returning or by
\* the RuntimeError of the dict iteration
ScopedPassOver == "members" \in DOMAIN last /\ "from" \in DOMAIN last
InScopeOf(c, from) == c # from /\ OrgOf(c) = OrgOf(from)

\* C17: the update of a track_event is sent to exactly the other registered
\* connections of the sender's organization: to no connection of another
\* organization and not to the sender, and to every connection of that
\* organization that was registered from the start of the pass to its end.
C17_UpdateReachesExactlyTheScope ==
    ScopedPassOver =>
        /\ \A c \in last.sent \cup last.failed : InScopeOf(c, last.from)
        /\ \A c \in last.members :
              (InScopeOf(c, last.from) /\ Registered(c)) =>
                  c \in last.sent \cup last.failed

\* the half of C17 that holds: no send to the sender or to another
\* organization
ScopeOnly ==
    ScopedPassOver => \A c \in last.sent \cup last.failed : InScopeOf(c, last.from)

\* C20: a broadcast pass during which connections are registered or
\* unregistered by other tasks ends by returning, not by raising (the
\* ValueError of list.remove in app.py, the RuntimeError of the dict
\* iteration in main.py), and every connection in its scope that was
\* registered at its start and is registered at its end was sent the message.
C20_PassSurvivesRegistryChange ==
    /\ PassEnd =>
          /\ ~last.raised
          /\ \A w \in last.members : AppRegistered(w) => w \in last.sent
    /\ ScopedPassOver =>
          /\ last.op = "broadcast_return"
          /\ \A c \in last.members :
                (InScopeOf(c, last.from) /\ Registered(c)) =>
                    c \in last.sent \cup last.failed

Computed == last.op = "tick" /\ last.snapshot # NoSnapshot

\* C14: in every snapshot system_health is "healthy" exactly when the
\* snapshot's error_rate field (in hundredths) is below 5.00 and its
\* cpu_usage field is below 80, and "warning" otherwise.
C14_HealthFollowsSnapshotFields ==
    Computed =>
        /\ last.snapshot.system_health \in {"healthy", "warning"}
        /\ last.snapshot.system_health = "healthy" <=>
              (last.snapshot.error_rate < 500 /\ last.snapshot.cpu_usage < 80)

\* C15: in every snapshot error_rate lies between 0 and 100 (0 and 10000
\* hundredths); it is 0 when no event of the last hour has a type that
\* matches the error pattern; and when the last hour holds no event at all,
\* active_users, api_calls_per_minute and error_rate are 0.
C15_ErrorRateInRange ==
    Computed =>
        LET snapshot == last.snapshot
            recent == { r \in BagToSet(last.db.events) :
                          r.timestamp > snapshot.timestamp - 3600 }
        IN  /\ snapshot.error_rate >= 0
            /\ snapshot.error_rate <= 10000
            /\ (\A r \in recent : ~LikeError(r.event_type)) => snapshot.error_rate = 0
            /\ recent = {} =>
                  /\ snapshot.active_users = 0
                  /\ snapshot.api_calls_per_minute = 0
                  /\ snapshot.error_rate = 0

\* a snapshot over tables that hold events, none of them of the last hour
C15_EmptyWindow ==
    /\ Computed
    /\ last.db.events # EmptyBag
    /\ \A r \in BagToSet(last.db.events) : r.timestamp <= last.snapshot.timestamp - 3600

\* two cycles in a row have computed a snapshot from the same tables
Repeated ==
    /\ Computed
    /\ last.previous.snapshot # NoSnapshot
    /\ last.db = last.previous.db

\* the fields of a snapshot that do not come from the clock or the host
ComparedFields ==
    {"active_users", "api_calls_per_minute", "error_rate", "tools_used_last_hour",
     "revenue_today", "total_revenue", "mrr", "arr", "total_events_last_hour"}

SameFigures(m1, m2) == \A f \in ComparedFields : m1[f] = m2[f]

\* the call has left the tables as they were
TablesUntouched ==
    last.db = Database(db_events, db_tool_usage, db_payments, db_subscriptions)

\* no row was inside its window (one hour for events and tool usage, one
\* day for payments) at time t1 and outside it at time t2
NoRowLeftItsWindow(db, t1, t2) ==
    /\ \A r \in BagToSet(db.events) \cup BagToSet(db.tool_usage) :
          r.timestamp > t1 - 3600 => r.timestamp > t2 - 3600
    /\ \A r \in BagToSet(db.payments) :
          r.timestamp > t1 - 86400 => r.timestamp > t2 - 86400

\* C18 as stated: two snapshots computed in succession from the same tables
\* agree in every field but timestamp, cpu_usage, memory_usage and
\* system_health, and the call leaves the tables as they were.
C18_RepeatedCallAgrees ==
    Repeated =>
        /\ SameFigures(last.snapshot, last.previous.snapshot)
        /\ TablesUntouched

\* C18, amended: they agree when no stored row has left its window between
\* the two calls.
C18_RepeatedCallAgreesWithinWindows ==
    (Repeated /\ NoRowLeftItsWindow(last.db, last.previous.snapshot.timestamp,
                                    last.snapshot.timestamp)) =>
        /\ SameFigures(last.snapshot, last.previous.snapshot)
        /\ TablesUntouched

\* a repeated call over tables of which one event row left the window
\* earlier and others are still in it
C18_RepeatedOverAgedRows ==
    /\ Repeated
    /\ NoRowLeftItsWindow(last.db, last.previous.snapshot.timestamp,
                          last.snapshot.timestamp)
    /\ last.snapshot.active_users > 0
    /\ \E r \in BagToSet(last.db.events) : r.timestamp <= last.snapshot.timestamp - 3600

\* the rows of the table events that the event with this id has produced
StoredCopies(i) ==
    CountRows(db_events, { r \in BagToSet(db_events) : r.id = i })
Queued(i) == \E k \in DOMAIN analytics_queue : analytics_queue[k].id = i
InsertFailed(i) ==
    last.op = "drain" /\ last.raised = "insert" /\ last.event.id = i

\* C21: no event posted to /api/events is ever in the table events more
\* than once, and an event that is in analytics_queue is in the end in the
\* table exactly once, unless the INSERT of its row has failed.
C21_QueuedEventStoredOnce ==
    /\ [](\A i \in 1..MaxTracked : StoredCopies(i) <= 1)
    /\ \A i \in 1..MaxTracked :
          Queued(i) ~> (StoredCopies(i) = 1 \/ InsertFailed(i))

\* the drainer has stored the second event of the queue, after a pass in
\* which it stored the first
C21_SecondEventDrained ==
    /\ last.op = "drain"
    /\ last.raised = "none"
    /\ last.event.id = 2
    /\ StoredCopies(1) = 1
    /\ StoredCopies(2) = 1

\* the value of the key counter:event:<type>, 0 when the key is not there
EventCounter(t) ==
    LET c == counters[[kind |-> "event", id |-> t]]
    IN  IF Exists(c, now) THEN c.value ELSE 0
StoredOfType(t) ==
    CountRows(db_events, { r \in BagToSet(db_events) : r.event_type = t })

\* C22: for every event type the counter counter:event:<type> is at most
\* the number of rows of that type in the table events.
C22_CounterNeverAheadOfStore ==
    \A t \in AppEventTypes : EventCounter(t) <= StoredOfType(t)

\* the INSERT of an event has failed in the drainer while the counter of
\* its type, incremented for an earlier event, stands at 1 or more
C22_InsertFailedAfterCount ==
    /\ last.op = "drain"
    /\ last.raised = "insert"
    /\ EventCounter(last.event.event_type) >= 1
====
